---------------------------- MODULE Spec2Model ----------------------------
(***************************************************************************)
(* A model of BPlusTree<T, order, Compare> (src/BPlusTree.h) with T = int   *)
(* and Compare = std::less<int>.                                            *)
(*                                                                          *)
(* The heap is a function from node addresses to node objects; m_header is  *)
(* the object at address HEADER.  A std::set of (key, child) pairs is a     *)
(* sequence of records kept in the order of the container; an iterator into *)
(* it is an index, Len + 1 being end().  Every public operation is one      *)
(* action; the loops of the code are recursive operators over a tree value  *)
(* [heap, root, size, ...], which also carries what the operation did       *)
(* (log, splits, borrows, steps, writes, searches, moves) for the           *)
(* properties to read.                                                      *)
(***************************************************************************)
EXTENDS Integers, Sequences, FiniteSets

VARIABLES
    order,   \* the template parameter `order` of this instantiation
    heap,    \* address -> node object (m_header included)
    m_root,  \* BPlusTree::m_root
    m_size,  \* BPlusTree::m_size
    ub,      \* the last operation executed undefined behaviour
    ret,     \* what the last public operation returned
    ref      \* history: the keys inserted and not erased since

vars == <<order, heap, m_root, m_size, ub, ret, ref>>

(***************************************************************************)
(* Bounds of the model.                                                     *)
(***************************************************************************)
MaxKey == 6     \* the keys of Spec are 1..MaxKey
MaxNodes == 7   \* the most nodes a tree of Spec allocates
MaxOrder == 4   \* the orders are 2..MaxOrder
HeapSize == 21  \* the addresses of the heap are 1..HeapSize

Keys == 1..MaxKey
NodeIds == 1..HeapSize
Orders == 2..MaxOrder

NULL == 0
HEADER == -1
Addrs == NodeIds \cup {HEADER}

(***************************************************************************)
(* Compare and the std::set of records.                                     *)
(***************************************************************************)
keycomp(a, b) == a < b

Rec(k, c) == [key |-> k, child |-> c]

\* std::set::lower_bound: the first record whose key is not less than k
set_lower_bound(recs, k) ==
    IF \E i \in 1..Len(recs) : ~keycomp(recs[i].key, k)
    THEN CHOOSE i \in 1..Len(recs) :
            /\ ~keycomp(recs[i].key, k)
            /\ \A j \in 1..(i - 1) : keycomp(recs[j].key, k)
    ELSE Len(recs) + 1

\* std::set::upper_bound: the first record whose key is greater than k
set_upper_bound(recs, k) ==
    IF \E i \in 1..Len(recs) : keycomp(k, recs[i].key)
    THEN CHOOSE i \in 1..Len(recs) :
            /\ keycomp(k, recs[i].key)
            /\ \A j \in 1..(i - 1) : ~keycomp(k, recs[j].key)
    ELSE Len(recs) + 1

\* std::set::find: the record equivalent to k, or end()
set_find(recs, k) ==
    LET p == set_lower_bound(recs, k)
    IN  IF p <= Len(recs) /\ ~keycomp(k, recs[p].key) THEN p ELSE Len(recs) + 1

\* std::set::insert: no effect when an equivalent key is stored
set_insert(recs, r) ==
    LET p == set_lower_bound(recs, r.key)
    IN  IF p <= Len(recs) /\ ~keycomp(r.key, recs[p].key)
        THEN recs
        ELSE SubSeq(recs, 1, p - 1) \o <<r>> \o SubSeq(recs, p, Len(recs))

\* std::set::erase(iterator)
set_erase(recs, p) == SubSeq(recs, 1, p - 1) \o SubSeq(recs, p + 1, Len(recs))

RECURSIVE set_insert_all(_, _)
set_insert_all(recs, items) ==
    IF items = <<>> THEN recs
    ELSE set_insert_all(set_insert(recs, Head(items)), Tail(items))

(***************************************************************************)
(* Node objects and the heap.                                               *)
(***************************************************************************)
NewNode == [alive |-> TRUE, records |-> <<>>, is_leaf |-> TRUE,
            next |-> NULL, pre |-> NULL, parent |-> NULL]

\* the storage of a node that is not allocated
FreedNode == [NewNode EXCEPT !.alive = FALSE]

\* half_order rounded up instead of down
half_order_rounded_up == (order + 2) \div 2

half_order == (order + 1) \div 2

\* the tree value the operations work on: the members of BPlusTree, and
\* limit (the nodes the model lets it allocate), and
\* what the operation met: full (it needed a node beyond limit), ub
\* (undefined behaviour), log (the splits and repair strategies it took)
Tree == [heap |-> heap, root |-> m_root, size |-> m_size,
         limit |-> MaxNodes, full |-> FALSE, ub |-> FALSE, log |-> <<>>, splits |-> <<>>,
         borrows |-> <<>>, steps |-> <<>>,
         writes |-> <<>>, searches |-> <<>>, moves |-> <<>>]

FreeIds(T) == {n \in NodeIds : ~T.heap[n].alive}

\* the nodes T may still allocate
Room(T) == T.limit - Cardinality({n \in NodeIds : T.heap[n].alive})

SmallestFree(T) == CHOOSE n \in FreeIds(T) : \A x \in FreeIds(T) : n <= x

\* new node_type(m_innercomp): some address that is not allocated
make_node(T) == [T EXCEPT !.heap[SmallestFree(T)] = NewNode]

\* delete node left out: the node stays allocated
delete_node_never(T, n) == T

\* delete node
delete_node(T, n) == [T EXCEPT !.heap[n] = FreedNode]

Records(T, n) == T.heap[n].records
NSize(T, n) == Len(T.heap[n].records)
LastKey(T, n) == T.heap[n].records[NSize(T, n)].key
FirstKey(T, n) == T.heap[n].records[1].key

\* SetParents with the assignment to parent left out
SetParents_forgotten(T, recs, p) == T

\* iter->second->parent = p for every record of recs with a child
SetParents(T, recs, p) ==
    [T EXCEPT !.heap = [a \in Addrs |->
        IF \E i \in 1..Len(recs) : recs[i].child = a
        THEN [T.heap[a] EXCEPT !.parent = p]
        ELSE T.heap[a]]]

\* the order of a std::set: each key less than the next
StrictlyAscending(recs) ==
    \A i \in 1..(Len(recs) - 1) : keycomp(recs[i].key, recs[i + 1].key)

\* a key of node n has just been overwritten in place: whether the records of
\* n are in order now is noted
Written(T, n) == [T EXCEPT !.writes = Append(@, StrictlyAscending(Records(T, n)))]

\* node n is searched by key (find, lower_bound, insert of its records):
\* whether its records are in order is noted
Searched(T, n) == [T EXCEPT !.searches = Append(@, StrictlyAscending(Records(T, n)))]

\* const_cast<key_type&>((--node->records.end())->first) = k
SetLastKey(T, n, k) ==
    IF NSize(T, n) = 0 THEN [T EXCEPT !.ub = TRUE]
    ELSE Written([T EXCEPT !.heap[n].records[NSize(T, n)].key = k], n)

(***************************************************************************)
(* Iterators: (node, record_iterator); node = NULL is end().                *)
(***************************************************************************)
make_iterator_uncheck(n, p) == [node |-> n, pos |-> p]
make_iterator_end == [node |-> NULL, pos |-> 0]

\* what an iterator operation with undefined behaviour leaves: a handle that
\* is no handle of the tree, equal to no other and not to end()
WILD == -2
undefined_iterator == [node |-> WILD, pos |-> 0]


(***************************************************************************)
(* split: the first half_order records of leaf_node move to a new left      *)
(* neighbour.  Returns the tree, the parent and the new node.               *)
(***************************************************************************)
\* the nodes split allocates: left, and a new root when leaf_node is the root
SplitNeeds(T, leaf_node) == IF T.heap[leaf_node].parent = NULL THEN 2 ELSE 1

\* split_move with left->is_leaf = leaf_node->is_leaf left out
split_move_keeps_leaf(T, leaf_node, left) ==
    [SetParents(T, SubSeq(Records(T, leaf_node), 1, half_order), left) EXCEPT
        !.heap[left].records =
            set_insert_all(<<>>, SubSeq(Records(T, leaf_node), 1, half_order)),
        !.heap[leaf_node].records = SubSeq(@, half_order + 1, Len(@))]

\* the loop of split and left->is_leaf: the first half_order records move
split_move(T, leaf_node, left) ==
    [SetParents(T, SubSeq(Records(T, leaf_node), 1, half_order), left) EXCEPT
        !.heap[left].records =
            set_insert_all(<<>>, SubSeq(Records(T, leaf_node), 1, half_order)),
        !.heap[leaf_node].records = SubSeq(@, half_order + 1, Len(@)),
        !.heap[left].is_leaf = T.heap[leaf_node].is_leaf]

\* split_link with leaf_node->pre->next = left left out
split_link_one_way(T, leaf_node, left) ==
    IF T.heap[leaf_node].pre # NULL
    THEN [T EXCEPT !.heap[left].next = leaf_node,
                   !.heap[left].pre = T.heap[leaf_node].pre,
                   !.heap[leaf_node].pre = left]
    ELSE [T EXCEPT !.heap[left].next = leaf_node,
                   !.heap[leaf_node].pre = left]

\* left enters the list of its level, before leaf_node
split_link(T, leaf_node, left) ==
    IF T.heap[leaf_node].pre # NULL
    THEN [T EXCEPT !.heap[left].next = leaf_node,
                   !.heap[left].pre = T.heap[leaf_node].pre,
                   !.heap[T.heap[leaf_node].pre].next = left,
                   !.heap[leaf_node].pre = left]
    ELSE [T EXCEPT !.heap[left].next = leaf_node,
                   !.heap[leaf_node].pre = left]

\* leaf_node was the root: a new root with the record of leaf_node
split_new_root(T, leaf_node, parent) ==
    [make_node(T) EXCEPT
        !.heap[parent].is_leaf = FALSE,
        !.root = parent,
        !.heap[parent].records = set_insert(<<>>, Rec(LastKey(T, leaf_node), leaf_node))]

\* the parent gets the record of left; both nodes get the parent
split_insert_left(T, leaf_node, left, parent, what) ==
    [t |-> [Searched(T, parent) EXCEPT
                     !.heap[parent].records = set_insert(@, Rec(LastKey(T, left), left)),
                     !.heap[leaf_node].parent = parent,
                     !.heap[left].parent = parent,
                     !.log = Append(@, what)],
     first |-> parent, second |-> left]

split_attach(T, leaf_node, left) ==
    IF T.heap[leaf_node].parent = NULL
    THEN split_insert_left(split_new_root(T, leaf_node, SmallestFree(T)),
                           leaf_node, left, SmallestFree(T), "SPLIT_ROOT")
    ELSE split_insert_left(T, leaf_node, left, T.heap[leaf_node].parent, "SPLIT")

\* the split s of leaf_node is noted: its keys before, and those of left and
\* of leaf_node after
split_noted(s, before, leaf_node, left) ==
    [s EXCEPT !.t.splits =
        Append(@, [before |-> [i \in 1..Len(before) |-> before[i].key],
                   left   |-> [i \in 1..NSize(s.t, left) |-> Records(s.t, left)[i].key],
                   node   |-> [i \in 1..NSize(s.t, leaf_node) |->
                                  Records(s.t, leaf_node)[i].key]])]

split_into(T, leaf_node, left) ==
    split_noted(
        split_attach(split_link(split_move(make_node(T), leaf_node, left), leaf_node, left),
                     leaf_node, left),
        Records(T, leaf_node), leaf_node, left)

split(T, leaf_node) ==
    IF Room(T) < SplitNeeds(T, leaf_node)
    THEN [t |-> [T EXCEPT !.full = TRUE], first |-> NULL, second |-> NULL]
    ELSE split_into(T, leaf_node, SmallestFree(T))

\* split_up without the loop: only the leaf is split
split_up_never(T, cur) == T

\* while (cur != nullptr && cur->records.size() > order) cur = split(cur).first;
RECURSIVE split_up(_, _)
split_up(T, cur) ==
    IF T.full \/ cur = NULL THEN T
    ELSE IF NSize(T, cur) > order
         THEN LET Again(s) == split_up(s.t, s.first) IN Again(split(T, cur))
         ELSE T

(***************************************************************************)
(* insert                                                                   *)
(***************************************************************************)
\* insert_descend with upper_bound for lower_bound at the internal nodes
RECURSIVE insert_descend_upper(_, _, _)
insert_descend_upper(T, cur, key) ==
    IF T.heap[cur].is_leaf THEN [t |-> T, leaf |-> cur]
    ELSE IF set_upper_bound(Records(T, cur), key) = NSize(T, cur) + 1
         THEN IF NSize(T, cur) = 0
              THEN [t |-> [T EXCEPT !.ub = TRUE], leaf |-> cur]
              ELSE insert_descend_upper(SetLastKey(T, cur, key),
                                        Records(T, cur)[NSize(T, cur)].child, key)
         ELSE insert_descend_upper(
                  T, Records(T, cur)[set_upper_bound(Records(T, cur), key)].child, key)

\* the descent of insert: at an internal node the child of lower_bound(key),
\* or the last child with its key overwritten; returns the tree and the leaf
RECURSIVE insert_descend(_, _, _)
insert_descend(T, cur, key) ==
    IF T.heap[cur].is_leaf THEN [t |-> Searched(T, cur), leaf |-> cur]
    ELSE IF set_lower_bound(Records(T, cur), key) = NSize(T, cur) + 1
         THEN IF NSize(T, cur) = 0
              THEN [t |-> [T EXCEPT !.ub = TRUE], leaf |-> cur]
              ELSE insert_descend(SetLastKey(Searched(T, cur), cur, key),
                                  Records(T, cur)[NSize(T, cur)].child, key)
         ELSE insert_descend(
                  Searched(T, cur),
                  Records(T, cur)[set_lower_bound(Records(T, cur), key)].child, key)

\* what insert returns: the tree, the iterator and the flag of the pair
InsertResult(T, it, inserted) == [t |-> T, it |-> it, inserted |-> inserted]

\* insert into the empty tree: a leaf becomes the root
insert_first(T, key, r) ==
    InsertResult([make_node(T) EXCEPT
                     !.root = r,
                     !.heap[r].is_leaf = TRUE,
                     !.heap[r].next = HEADER,
                     !.heap[r].pre = HEADER,
                     !.heap[HEADER].next = r,
                     !.heap[HEADER].pre = r,
                     !.heap[r].records = set_insert(<<>>, Rec(key, NULL)),
                     !.size = T.size + 1],
                 make_iterator_uncheck(r, 1), TRUE)

\* split_side that always answers the split node
split_side_always_cur(T, key, cur, left) == cur

\* after the split of the leaf cur: the node that holds key, left or cur
split_side(T, key, cur, left) ==
    IF keycomp(key, FirstKey(T, cur)) THEN left ELSE cur

\* the leaf cur was split (s): the iterator, then the splits above
insert_split(s, cur, key) ==
    IF s.t.full THEN InsertResult(s.t, make_iterator_end, FALSE)
    ELSE InsertResult(
            split_up(s.t, s.first),
            make_iterator_uncheck(
                split_side(s.t, key, cur, s.second),
                set_find(Records(s.t, split_side(s.t, key, cur, s.second)), key)),
            TRUE)

\* key is in the leaf cur of T and m_size counts it
insert_stored(T, cur, key) ==
    IF NSize(T, cur) <= order
    THEN InsertResult(T, make_iterator_uncheck(cur, set_find(Records(T, cur), key)), TRUE)
    ELSE insert_split(split(T, cur), cur, key)

\* the descent d has reached a leaf
insert_leaf(d, key) ==
    IF d.t.ub THEN InsertResult(d.t, make_iterator_end, FALSE)
    ELSE IF set_find(Records(d.t, d.leaf), key) # NSize(d.t, d.leaf) + 1
    THEN InsertResult(d.t,
                      make_iterator_uncheck(d.leaf, set_find(Records(d.t, d.leaf), key)),
                      FALSE)
    ELSE insert_stored([d.t EXCEPT !.heap[d.leaf].records = set_insert(@, Rec(key, NULL)),
                                   !.size = @ + 1],
                       d.leaf, key)

insert(T, key) ==
    IF T.root = NULL
    THEN IF Room(T) <= 0
         THEN InsertResult([T EXCEPT !.full = TRUE], make_iterator_end, FALSE)
         ELSE insert_first(T, key, SmallestFree(T))
    ELSE insert_leaf(insert_descend(T, T.root, key), key)

(***************************************************************************)
(* Search.                                                                  *)
(***************************************************************************)
\* find_from with upper_bound for lower_bound at the internal nodes
RECURSIVE find_from_upper(_, _, _)
find_from_upper(T, cur, key) ==
    IF cur = NULL THEN make_iterator_end
    ELSE LET recs == Records(T, cur)
         IN  IF ~T.heap[cur].is_leaf
             THEN LET p == set_upper_bound(recs, key)
                  IN  IF p = Len(recs) + 1 THEN make_iterator_end
                      ELSE find_from_upper(T, recs[p].child, key)
             ELSE LET p == set_find(recs, key)
                  IN  IF p # Len(recs) + 1 THEN make_iterator_uncheck(cur, p)
                      ELSE make_iterator_end

\* the loop of find, from the node cur
RECURSIVE find_from(_, _, _)
find_from(T, cur, key) ==
    IF cur = NULL THEN make_iterator_end
    ELSE LET recs == Records(T, cur)
         IN  IF ~T.heap[cur].is_leaf
             THEN LET p == set_lower_bound(recs, key)
                  IN  IF p = Len(recs) + 1 THEN make_iterator_end
                      ELSE find_from(T, recs[p].child, key)
             ELSE LET p == set_find(recs, key)
                  IN  IF p # Len(recs) + 1 THEN make_iterator_uncheck(cur, p)
                      ELSE make_iterator_end

find(T, key) == find_from(T, T.root, key)

RECURSIVE lower_bound_from(_, _, _)
lower_bound_from(T, cur, key) ==
    IF cur = NULL THEN make_iterator_end
    ELSE LET recs == Records(T, cur)
             p    == set_lower_bound(recs, key)
         IN  IF ~T.heap[cur].is_leaf
             THEN IF p = Len(recs) + 1 THEN make_iterator_end
                  ELSE lower_bound_from(T, recs[p].child, key)
             ELSE make_iterator_uncheck(cur, p)

lower_bound(T, key) == lower_bound_from(T, T.root, key)

\* make_iterator(node, rit): the end of a leaf becomes the begin of the next
\* leaf, or end() after the last leaf
make_iterator(T, node, pos) ==
    IF pos # NSize(T, node) + 1 THEN make_iterator_uncheck(node, pos)
    ELSE IF T.heap[node].next # HEADER
         THEN IF T.heap[node].next = NULL THEN undefined_iterator
              ELSE make_iterator_uncheck(T.heap[node].next, 1)
         ELSE make_iterator_end

\* upper_bound_from that returns the position in the leaf as it is
RECURSIVE upper_bound_from_uncheck(_, _, _)
upper_bound_from_uncheck(T, cur, key) ==
    IF cur = NULL THEN make_iterator_end
    ELSE LET recs == Records(T, cur)
             p    == set_upper_bound(recs, key)
         IN  IF ~T.heap[cur].is_leaf
             THEN IF p = Len(recs) + 1 THEN make_iterator_end
                  ELSE upper_bound_from_uncheck(T, recs[p].child, key)
             ELSE make_iterator_uncheck(cur, p)

\* the loop of upper_bound, from the node cur
RECURSIVE upper_bound_from(_, _, _)
upper_bound_from(T, cur, key) ==
    IF cur = NULL THEN make_iterator_end
    ELSE LET recs == Records(T, cur)
             p    == set_upper_bound(recs, key)
         IN  IF ~T.heap[cur].is_leaf
             THEN IF p = Len(recs) + 1 THEN make_iterator_end
                  ELSE upper_bound_from(T, recs[p].child, key)
             ELSE make_iterator(T, cur, p)

upper_bound(T, key) == upper_bound_from(T, T.root, key)

(***************************************************************************)
(* fix_key_on_path                                                          *)
(***************************************************************************)
\* node is the last of its level: the last key of every ancestor
RECURSIVE fix_rightmost(_, _, _)
fix_rightmost(T, node, new_key) ==
    IF node = NULL \/ T.ub THEN T
    ELSE fix_rightmost(SetLastKey(T, node, new_key), T.heap[node].parent, new_key)

\* otherwise: the last key of every ancestor below the ancestor shared with
\* node->next, and in that ancestor the record found by old_key
RECURSIVE fix_converge(_, _, _, _, _)
fix_converge(T, node, right, old_key, new_key) ==
    IF T.ub THEN T
    ELSE IF node # right
    THEN IF node = NULL \/ right = NULL
         THEN [T EXCEPT !.ub = TRUE]
         ELSE fix_converge(SetLastKey(T, node, new_key), T.heap[node].parent,
                           T.heap[right].parent, old_key, new_key)
    ELSE IF node = NULL THEN [T EXCEPT !.ub = TRUE]
    ELSE LET p == set_find(Records(T, node), old_key)
         IN  IF p = NSize(T, node) + 1
             THEN [T EXCEPT !.ub = TRUE]
             ELSE Written([Searched(T, node) EXCEPT !.heap[node].records[p].key = new_key],
                          node)

\* fix_key_on_path that only handles the last node of a level
fix_key_on_path_rightmost_only(T, node, old_key, new_key) ==
    IF T.heap[node].next = NULL \/ T.heap[node].next = HEADER
    THEN fix_rightmost(T, T.heap[node].parent, new_key)
    ELSE T

fix_key_on_path(T, node, old_key, new_key) ==
    IF T.heap[node].next = NULL \/ T.heap[node].next = HEADER
    THEN fix_rightmost(T, T.heap[node].parent, new_key)
    ELSE fix_converge(T, T.heap[node].parent, T.heap[T.heap[node].next].parent,
                      old_key, new_key)

(***************************************************************************)
(* erase_strategy                                                           *)
(***************************************************************************)
is_left_end(T, node) == T.heap[node].pre = NULL \/ T.heap[node].pre = HEADER
is_right_end(T, node) == T.heap[node].next = NULL \/ T.heap[node].next = HEADER

has_left_slibing(T, node) ==
    /\ ~is_left_end(T, node)
    /\ T.heap[T.heap[node].pre].parent = T.heap[node].parent

has_right_slibing(T, node) ==
    /\ ~is_right_end(T, node)
    /\ T.heap[T.heap[node].next].parent = T.heap[node].parent

can_merge_left(T, node) ==
    /\ has_left_slibing(T, node)
    /\ NSize(T, node) - 1 + NSize(T, T.heap[node].pre) <= order

can_merge_right(T, node) ==
    /\ has_right_slibing(T, node)
    /\ NSize(T, node) - 1 + NSize(T, T.heap[node].next) <= order

can_borrow_right_at_half(T, node) ==
    ~is_right_end(T, node) /\ NSize(T, T.heap[node].next) >= half_order

can_borrow_right(T, node) ==
    ~is_right_end(T, node) /\ NSize(T, T.heap[node].next) > half_order

can_borrow_left(T, node) ==
    ~is_left_end(T, node) /\ NSize(T, T.heap[node].pre) > half_order

\* erase_strategy<true> testing in the order of erase_strategy<false>
erase_strategy_2_merges_last(T, node) ==
    IF node = T.root THEN "ROOT"
    ELSE IF NSize(T, node) > half_order THEN "REMOVE_DIRECTLY"
    ELSE IF can_borrow_right(T, node) THEN "BORROW_RIGHT"
    ELSE IF can_borrow_left(T, node) THEN "BORROW_LEFT"
    ELSE IF can_merge_left(T, node) THEN "MERGE_LEFT"
    ELSE IF can_merge_right(T, node) THEN "MERGE_RIGHT"
    ELSE "SINGLE_CHILD"

\* erase_strategy<true>: order == 2
erase_strategy_2(T, node) ==
    IF node = T.root THEN "ROOT"
    ELSE IF can_merge_left(T, node) THEN "MERGE_LEFT"
    ELSE IF can_merge_right(T, node) THEN "MERGE_RIGHT"
    ELSE IF NSize(T, node) > half_order THEN "REMOVE_DIRECTLY"
    ELSE IF can_borrow_right(T, node) THEN "BORROW_RIGHT"
    ELSE IF can_borrow_left(T, node) THEN "BORROW_LEFT"
    ELSE "SINGLE_CHILD"

\* erase_strategy<false>: order > 2
erase_strategy_n(T, node) ==
    IF node = T.root THEN "ROOT"
    ELSE IF NSize(T, node) > half_order THEN "REMOVE_DIRECTLY"
    ELSE IF can_borrow_right(T, node) THEN "BORROW_RIGHT"
    ELSE IF can_borrow_left(T, node) THEN "BORROW_LEFT"
    ELSE IF can_merge_left(T, node) THEN "MERGE_LEFT"
    ELSE IF can_merge_right(T, node) THEN "MERGE_RIGHT"
    ELSE "SINGLE_CHILD"

erase_strategy(T, node) ==
    IF order = 2 THEN erase_strategy_2(T, node) ELSE erase_strategy_n(T, node)

(***************************************************************************)
(* erase_helper: one step of the repair at (node, record_iterator).         *)
(* Returns the tree, the next (node, record_iterator) and whether the       *)
(* layer above needs modifying.                                             *)
(***************************************************************************)
Step(T, n, p, more) == [t |-> T, node |-> n, pos |-> p, more |-> more]

Logged(T, what) == [T EXCEPT !.log = Append(@, what)]

\* fix_key_on_path(node, to_delete_key, (--node->records.end())->first)
fix_after_erase(T, node, to_delete_key) ==
    IF NSize(T, node) = 0 THEN [T EXCEPT !.ub = TRUE]
    ELSE fix_key_on_path(T, node, to_delete_key, LastKey(T, node))

helper_root(T, node, pos) ==
    Step([T EXCEPT !.heap[node].records = set_erase(@, pos)], node, pos, FALSE)

\* the loop of MERGE_LEFT: the record at pos goes, the records of left enter node
merge_left_move(T, node, pos, left) ==
    [SetParents([T EXCEPT !.heap[node].records = set_erase(@, pos)],
                Records(T, left), node)
        EXCEPT !.heap[node].records =
                  set_insert_all(@, [i \in 1..NSize(T, left) |->
                                        Records(T, left)[NSize(T, left) + 1 - i]])]

\* merge_unlink with left->pre->next = node left out
merge_unlink_one_way(T, kept, gone) ==
    delete_node([T EXCEPT !.heap[kept].pre = T.heap[gone].pre], gone)

\* gone leaves the list of its level, kept takes its place in it; delete gone
merge_unlink(T, kept, gone) ==
    IF T.heap[gone].pre # NULL
    THEN delete_node([T EXCEPT !.heap[T.heap[gone].pre].next = kept,
                               !.heap[kept].pre = T.heap[gone].pre], gone)
    ELSE delete_node([T EXCEPT !.heap[kept].pre = NULL], gone)

\* left_in_parent->second = nullptr; the parent is the next node to repair
merge_finish(T, parent, left_in_parent) ==
    IF T.ub \/ left_in_parent = NSize(T, parent) + 1
    THEN Step([T EXCEPT !.ub = TRUE], parent, left_in_parent, FALSE)
    ELSE Step([T EXCEPT !.heap[parent].records[left_in_parent].child = NULL],
              parent, left_in_parent, TRUE)

helper_merge_left(T, node, pos) ==
    LET to_delete_key == Records(T, node)[pos].key
        left     == T.heap[node].pre
        parent   == T.heap[node].parent
        need_fix == pos = NSize(T, node)
    IN  IF NSize(T, left) = 0
        THEN Step([T EXCEPT !.heap[node].records = set_erase(@, pos), !.ub = TRUE],
                  node, pos, FALSE)
        ELSE merge_finish(
                 merge_unlink(
                     IF need_fix
                     THEN fix_after_erase(
                              merge_left_move(Searched(T, parent), node, pos, left),
                              node, to_delete_key)
                     ELSE merge_left_move(Searched(T, parent), node, pos, left),
                     node, left),
                 parent, set_find(Records(T, parent), LastKey(T, left)))

\* the loop of MERGE_RIGHT: the record at pos goes, the others enter right
merge_right_move(T, node, pos, right) ==
    [SetParents(T, set_erase(Records(T, node), pos), right)
        EXCEPT !.heap[right].records = set_insert_all(@, set_erase(Records(T, node), pos)),
               !.heap[node].records = <<>>]

helper_merge_right(T, node, pos) ==
    LET right  == T.heap[node].next
        parent == T.heap[node].parent
    IN  merge_finish(merge_unlink(merge_right_move(Searched(T, parent), node, pos, right),
                                  right, node),
                     parent, set_find(Records(T, parent), LastKey(T, node)))

helper_remove_directly(T, node, pos) ==
    IF pos = NSize(T, node)
    THEN Step(fix_after_erase([T EXCEPT !.heap[node].records = set_erase(@, pos)],
                              node, Records(T, node)[pos].key),
              node, pos, FALSE)
    ELSE Step([T EXCEPT !.heap[node].records = set_erase(@, pos)], node, pos, FALSE)

\* BORROW_RIGHT after fix_key_on_path: the first record of right enters node
borrow_right_move(T, node, pos, right, right_first) ==
    [SetParents([T EXCEPT !.heap[node].records = set_erase(@, pos)],
                <<right_first>>, node)
        EXCEPT !.heap[node].records = set_insert(@, right_first),
               !.heap[right].records = set_erase(@, 1)]

helper_borrow_right(T, node, pos) ==
    LET right == T.heap[node].next
    IN  Step(borrow_right_move(
                 fix_key_on_path(T, node, LastKey(T, node), FirstKey(T, right)),
                 node, pos, right, Records(T, right)[1]),
             node, pos, FALSE)

\* BORROW_LEFT up to the fixes: the last record of left enters node
borrow_left_move(T, node, pos, left, left_last) ==
    [SetParents([T EXCEPT !.heap[node].records = set_erase(@, pos)],
                <<left_last>>, node)
        EXCEPT !.heap[node].records = set_insert(@, left_last),
               !.heap[left].records = set_erase(@, Len(@))]

\* if (need_fix_pos_key_on_path) fix_key_on_path(node, to_delete_key, new_key)
borrow_left_fix(T, node, to_delete_key, need_fix) ==
    IF need_fix /\ ~T.ub THEN fix_after_erase(T, node, to_delete_key) ELSE T

helper_borrow_left(T, node, pos) ==
    LET to_delete_key == Records(T, node)[pos].key
        left      == T.heap[node].pre
        left_last == Records(T, left)[NSize(T, left)]
        need_fix  == pos = NSize(T, node)
    IN  IF NSize(T, left) = 1
        THEN Step([borrow_left_move(T, node, pos, left, left_last) EXCEPT !.ub = TRUE],
                  node, pos, FALSE)
        ELSE Step(borrow_left_fix(
                      fix_key_on_path(borrow_left_move(T, node, pos, left, left_last),
                                      left, left_last.key,
                                      Records(T, left)[NSize(T, left) - 1].key),
                      node, to_delete_key, need_fix),
                  node, pos, FALSE)

\* if (node->pre != nullptr) { node->pre->next = right; ... }
single_child_pre(T, left, right) ==
    IF left = NULL THEN T
    ELSE IF right # NULL
         THEN [T EXCEPT !.heap[left].next = right, !.heap[right].pre = left]
         ELSE [T EXCEPT !.heap[left].next = right]

\* if (node->next != nullptr) { node->next->pre = left; ... }
single_child_next(T, left, right) ==
    IF right = NULL THEN T
    ELSE IF left # NULL
         THEN [T EXCEPT !.heap[right].pre = left, !.heap[left].next = right]
         ELSE [T EXCEPT !.heap[right].pre = left]

helper_single_child(T, node, pos) ==
    LET left   == T.heap[node].pre
        right  == T.heap[node].next
        parent == T.heap[node].parent
    IN  Step(delete_node(
                 single_child_next(
                     single_child_pre(
                         [T EXCEPT !.heap[parent].records[1].child = NULL],
                         left, right),
                     left, right),
                 node),
             parent, 1, TRUE)

\* the branches of erase_helper
erase_dispatch(T, node, pos, strategy) ==
    CASE strategy = "ROOT"            -> helper_root(T, node, pos)
      [] strategy = "MERGE_LEFT"      -> helper_merge_left(T, node, pos)
      [] strategy = "MERGE_RIGHT"     -> helper_merge_right(T, node, pos)
      [] strategy = "REMOVE_DIRECTLY" -> helper_remove_directly(T, node, pos)
      [] strategy = "BORROW_RIGHT"    -> helper_borrow_right(T, node, pos)
      [] strategy = "BORROW_LEFT"     -> helper_borrow_left(T, node, pos)
      [] OTHER                        -> helper_single_child(T, node, pos)

\* the number of parents above node n
RECURSIVE Level(_, _, _)
Level(T, n, fuel) ==
    IF n \notin NodeIds \/ fuel = 0 THEN 0 ELSE 1 + Level(T, T.heap[n].parent, fuel - 1)

\* a borrow of node from its neighbour from is noted: whether from is a node,
\* on the level of node, under the parent of node, and how many records it has
Borrowed(T, what, node, from) ==
    [T EXCEPT !.borrows =
        Append(@, [what        |-> what,
                   is_node     |-> from \in NodeIds,
                   same_level  |-> Level(T, from, HeapSize) = Level(T, node, HeapSize),
                   same_parent |-> from \in NodeIds /\
                                   T.heap[from].parent = T.heap[node].parent,
                   size        |-> IF from \in NodeIds THEN NSize(T, from) ELSE 0,
                   own         |-> NSize(T, node)])]

\* the strategy chosen for node is noted
Noted(T, node, strategy) ==
    CASE strategy = "BORROW_RIGHT" -> Borrowed(T, strategy, node, T.heap[node].next)
      [] strategy = "BORROW_LEFT"  -> Borrowed(T, strategy, node, T.heap[node].pre)
      [] OTHER                     -> T

\* the strategy chosen for node is noted with what the classifier saw: whether
\* node is the root, its records, and of each neighbour whether it is a
\* node, whether it has the parent of node, and its records
Decided(T, node, strategy) ==
    [T EXCEPT !.steps =
        Append(@, [what       |-> strategy,
                   is_root    |-> node = T.root,
                   own        |-> NSize(T, node),
                   left_node  |-> ~is_left_end(T, node),
                   right_node |-> ~is_right_end(T, node),
                   left_sib   |-> has_left_slibing(T, node),
                   right_sib  |-> has_right_slibing(T, node),
                   left_size  |-> IF is_left_end(T, node) THEN 0
                                  ELSE NSize(T, T.heap[node].pre),
                   right_size |-> IF is_right_end(T, node) THEN 0
                                  ELSE NSize(T, T.heap[node].next)])]

erase_helper(T, node, pos) ==
    erase_dispatch(Decided(Noted(Logged(T, erase_strategy(T, node)), node,
                                 erase_strategy(T, node)),
                           node, erase_strategy(T, node)),
                   node, pos, erase_strategy(T, node))

(***************************************************************************)
(* clear and erase                                                          *)
(***************************************************************************)
RECURSIVE clear_helper(_, _)
RECURSIVE clear_children(_, _)

\* the loop of clear_helper over the records of a node
clear_children(T, recs) ==
    IF recs = <<>> THEN T
    ELSE clear_children(clear_helper(T, Head(recs).child), Tail(recs))

clear_helper(T, node) ==
    IF node = NULL THEN T
    ELSE IF ~T.heap[node].alive THEN [T EXCEPT !.ub = TRUE]
    ELSE delete_node(clear_children(T, Records(T, node)), node)

\* reset_header that leaves the links of the header as they are
reset_header_forgotten(T) == T

reset_header(T) == [T EXCEPT !.heap[HEADER].next = HEADER, !.heap[HEADER].pre = HEADER]

\* clear with m_size = 0u left out
clear_keeps_size(T) == reset_header([clear_helper(T, T.root) EXCEPT !.root = NULL])

clear(T) == [reset_header([clear_helper(T, T.root) EXCEPT !.root = NULL]) EXCEPT !.size = 0]

(***************************************************************************)
(* print: the nodes in the order of a queue that starts with the root; a    *)
(* newline follows a node whose next is null or the header.  The value is   *)
(* the number of newlines written.                                          *)
(***************************************************************************)
\* the children print pushes for the records recs
RECURSIVE print_push(_)
print_push(recs) ==
    IF recs = <<>> THEN <<>>
    ELSE IF Head(recs).child # NULL THEN <<Head(recs).child>> \o print_push(Tail(recs))
    ELSE print_push(Tail(recs))

\* if (cur->next == nullptr || cur->next == &m_header) std::cout << "\n";
print_newline(T, cur) ==
    IF T.heap[cur].next = NULL \/ T.heap[cur].next = HEADER THEN 1 ELSE 0

\* while (!q.empty())
RECURSIVE print_loop(_, _, _)
print_loop(T, q, fuel) ==
    IF q = <<>> \/ fuel = 0 THEN 0
    ELSE IF NSize(T, Head(q)) = 0 THEN 0 - HeapSize  \* size() - 1 wraps: no count
    ELSE print_newline(T, Head(q))
         + print_loop(T, Tail(q) \o print_push(Records(T, Head(q))), fuel - 1)

print(T) == IF T.root = NULL THEN 0 ELSE print_loop(T, <<T.root>>, HeapSize + 1)

\* the loop of erase left after the first call of erase_helper
erase_again_never(s) ==
    [t |-> s.t, node |-> s.node, pos |-> s.pos, more |-> FALSE]

\* the step s of erase_helper is done: again when it returned true
erase_again(s) ==
    [t |-> s.t, node |-> s.node, pos |-> s.pos, more |-> s.more /\ ~s.t.ub]

\* erase_helper, called on node of T, has returned s: what it returned is
\* noted, whether it left the parent of node as the node to repair, with a
\* record of that node as the position, and how many nodes lie from node up
\* to the root
erase_moved(T, node, s) ==
    [s EXCEPT !.t.moves =
        Append(@, [more   |-> s.more,
                   up     |-> s.node = T.heap[node].parent,
                   inside |-> /\ s.node \in NodeIds
                              /\ s.t.heap[s.node].alive
                              /\ s.pos \in 1..NSize(s.t, s.node),
                   level  |-> Level(T, node, HeapSize)])]

\* while (erase_helper(node, record_iterator));
RECURSIVE erase_loop(_)
erase_loop(s) ==
    IF s.more
    THEN erase_loop(erase_again(erase_moved(s.t, s.node, erase_helper(s.t, s.node, s.pos))))
    ELSE s.t

\* erase without the loop that replaces a root of one record
shrink_root_never(T) == T

\* while (!m_root->is_leaf && m_root->records.size() == 1) ...
RECURSIVE shrink_root(_)
shrink_root(T) ==
    IF T.ub THEN T
    ELSE IF T.root = NULL THEN [T EXCEPT !.ub = TRUE]
    ELSE IF ~T.heap[T.root].is_leaf /\ NSize(T, T.root) = 1
    THEN LET tmp == Records(T, T.root)[1].child
             T1  == [delete_node(Logged(T, "ROOT_SHRINK"), T.root) EXCEPT !.root = tmp]
         IN  IF tmp = NULL THEN [T1 EXCEPT !.ub = TRUE]
             ELSE shrink_root([T1 EXCEPT !.heap[tmp].parent = NULL])
    ELSE T

\* return lower_bound(to_delete_key);
erase_return(T, to_delete_key) ==
    [t |-> T,
     it |-> IF T.ub THEN make_iterator_end ELSE lower_bound(T, to_delete_key),
     threw |-> FALSE]

\* erase without the test of m_size == 0 that throws
erase_unchecked(T, pos) ==
    IF T.size - 1 = 0
    THEN [t |-> clear([T EXCEPT !.size = @ - 1]), it |-> make_iterator_end,
          threw |-> FALSE]
    ELSE IF pos.node \notin NodeIds
    THEN [t |-> [T EXCEPT !.size = @ - 1, !.ub = TRUE], it |-> make_iterator_end,
          threw |-> FALSE]
    ELSE erase_return(
             shrink_root(erase_loop(Step([T EXCEPT !.size = @ - 1],
                                         pos.node, pos.pos, TRUE))),
             Records(T, pos.node)[pos.pos].key)

\* erase(iterator pos): the tree, the returned iterator, whether it threw
erase(T, pos) ==
    IF T.size = 0
    THEN [t |-> T, it |-> make_iterator_end, threw |-> TRUE]
    ELSE IF T.size - 1 = 0
    THEN [t |-> clear([T EXCEPT !.size = @ - 1]), it |-> make_iterator_end,
          threw |-> FALSE]
    ELSE erase_return(
             shrink_root(erase_loop(Step([T EXCEPT !.size = @ - 1],
                                         pos.node, pos.pos, TRUE))),
             Records(T, pos.node)[pos.pos].key)

(***************************************************************************)
(* Iteration.                                                               *)
(***************************************************************************)
\* iterator::operator==
iter_eq(a, b) ==
    IF a.node = NULL /\ b.node = NULL THEN TRUE
    ELSE IF a.node = NULL \/ b.node = NULL THEN FALSE
    ELSE a.node = b.node /\ a.pos = b.pos

end(T) == make_iterator_end

begin(T) ==
    IF T.size = 0 THEN end(T) ELSE make_iterator_uncheck(T.heap[HEADER].next, 1)

\* an iterator that operator* may be applied to
Dereferenceable(T, it) ==
    /\ it.node \in NodeIds
    /\ T.heap[it.node].alive
    /\ it.pos \in 1..NSize(T, it.node)

\* iterator::operator*
deref(T, it) == Records(T, it.node)[it.pos].key

\* operator++ that ends at the end of a leaf instead of moving to node->next
iter_inc_one_leaf(T, it) ==
    IF T.root = NULL THEN it
    ELSE IF ~Dereferenceable(T, it) THEN undefined_iterator
    ELSE IF it.pos + 1 = NSize(T, it.node) + 1
         THEN make_iterator_uncheck(NULL, it.pos + 1)
         ELSE make_iterator_uncheck(it.node, it.pos + 1)

\* iterator::operator++; record_iterator++ at the end of the records, or on
\* end(), and node->records of a null node are undefined
iter_inc(T, it) ==
    IF T.root = NULL THEN it
    ELSE IF ~Dereferenceable(T, it) THEN undefined_iterator
    ELSE IF it.pos + 1 = NSize(T, it.node) + 1
         THEN LET nx == T.heap[it.node].next
              IN  IF nx = NULL THEN undefined_iterator
                  ELSE IF nx # HEADER
                  THEN make_iterator_uncheck(nx, 1)
                  ELSE make_iterator_uncheck(NULL, it.pos + 1)
         ELSE make_iterator_uncheck(it.node, it.pos + 1)

\* operator-- that takes the first record of node->pre for its last
iter_dec_pre_first(T, it) ==
    IF T.root = NULL THEN it
    ELSE IF it.node \notin NodeIds \cup {NULL} THEN undefined_iterator
    ELSE IF it.node = T.heap[HEADER].next /\ it.pos = 1 THEN it
    ELSE IF it.node = NULL
         THEN IF T.heap[HEADER].pre \notin NodeIds \/ NSize(T, T.heap[HEADER].pre) = 0
              THEN undefined_iterator
              ELSE make_iterator_uncheck(T.heap[HEADER].pre,
                                         NSize(T, T.heap[HEADER].pre))
    ELSE IF it.pos = 1
         THEN IF T.heap[it.node].pre \notin NodeIds \/ NSize(T, T.heap[it.node].pre) = 0
              THEN undefined_iterator
              ELSE make_iterator_uncheck(T.heap[it.node].pre, 1)
    ELSE make_iterator_uncheck(it.node, it.pos - 1)

\* iterator::operator--; --node->records.end() of a node without records and
\* the records of a node that is null or the header are undefined
iter_dec(T, it) ==
    IF T.root = NULL THEN it
    ELSE IF it.node \notin NodeIds \cup {NULL} THEN undefined_iterator
    ELSE IF it.node = T.heap[HEADER].next /\ it.pos = 1 THEN it
    ELSE IF it.node = NULL
         THEN IF T.heap[HEADER].pre \notin NodeIds \/ NSize(T, T.heap[HEADER].pre) = 0
              THEN undefined_iterator
              ELSE make_iterator_uncheck(T.heap[HEADER].pre,
                                         NSize(T, T.heap[HEADER].pre))
    ELSE IF it.pos = 1
         THEN IF T.heap[it.node].pre \notin NodeIds \/ NSize(T, T.heap[it.node].pre) = 0
              THEN undefined_iterator
              ELSE make_iterator_uncheck(T.heap[it.node].pre,
                                         NSize(T, T.heap[it.node].pre))
    ELSE make_iterator_uncheck(it.node, it.pos - 1)

\* equal_range: auto lb = lower_bound(key); return { lower_bound(key), ++lb }
equal_range(T, key) ==
    [first |-> lower_bound(T, key), second |-> iter_inc(T, lower_bound(T, key))]

(***************************************************************************)
(* The public operations as actions.                                        *)
(***************************************************************************)
HeaderInit == [NewNode EXCEPT !.next = HEADER, !.pre = HEADER]

Init ==
    /\ order \in Orders
    /\ heap = [a \in Addrs |-> IF a = HEADER THEN HeaderInit ELSE FreedNode]
    /\ m_root = NULL
    /\ m_size = 0
    /\ ub = FALSE
    /\ ret = [op |-> "init", key |-> 0, it |-> make_iterator_end, flag |-> FALSE, log |-> <<>>,
             splits |-> <<>>, borrows |-> <<>>, steps |-> <<>>,
             writes |-> <<>>, searches |-> <<>>, moves |-> <<>>]
    /\ ref = {}

(***************************************************************************)
(* Addresses.  Which address new returns is unspecified and the program     *)
(* only compares addresses for equality, so a state is kept up to a         *)
(* renaming of the addresses: the nodes are numbered in the order of a      *)
(* walk from the root, the nodes the walk does not meet after them.         *)
(***************************************************************************)
RECURSIVE Walk(_, _, _)
RECURSIVE WalkAll(_, _, _)

WalkAll(T, recs, fuel) ==
    IF recs = <<>> THEN <<>>
    ELSE Walk(T, Head(recs).child, fuel) \o WalkAll(T, Tail(recs), fuel)

Walk(T, n, fuel) ==
    IF n \notin NodeIds \/ fuel = 0 THEN <<>>
    ELSE <<n>> \o WalkAll(T, Records(T, n), fuel - 1)

\* the first occurrence of every element of s, in the order of s
RECURSIVE Dedup(_, _)
Dedup(s, seen) ==
    IF s = <<>> THEN <<>>
    ELSE IF Head(s) \in seen THEN Dedup(Tail(s), seen)
    ELSE <<Head(s)>> \o Dedup(Tail(s), seen \cup {Head(s)})

RECURSIVE Ascending(_)
Ascending(S) ==
    IF S = {} THEN <<>>
    ELSE LET m == CHOOSE x \in S : \A y \in S : x <= y
         IN  <<m>> \o Ascending(S \ {m})

\* the nodes in the order of their new addresses: met by the walk, then the rest
CanonOrder(met) ==
    met \o SelectSeq([n \in 1..HeapSize |-> n], LAMBDA n : \A i \in 1..Len(met) : met[i] # n)

CanonMap(all) ==
    [a \in Addrs \cup {NULL} |->
        IF a \in NodeIds THEN CHOOSE i \in 1..Len(all) : all[i] = a ELSE a]

\* the renaming: old address -> new address
Canon(T) == CanonMap(CanonOrder(Dedup(Walk(T, T.root, HeapSize + 1), {})))

RenameNode(nd, f) ==
    [nd EXCEPT !.next = f[@], !.pre = f[@], !.parent = f[@],
               !.records = [i \in 1..Len(@) |-> [@[i] EXCEPT !.child = f[@]]]]

RenameIt(it, f) == [it EXCEPT !.node = f[@]]

Renamed(T, f) ==
    [T EXCEPT !.root = f[@],
              !.heap = [b \in Addrs |->
                  RenameNode(T.heap[CHOOSE a \in Addrs : f[a] = b], f)]]

\* the members of the tree become those of N, the observed return value r
Store(N, r) ==
    /\ heap' = N.heap
    /\ m_root' = N.root
    /\ m_size' = N.size
    /\ ub' = N.ub
    /\ ret' = r
    /\ UNCHANGED order

CommitRenamed(T, r, f) ==
    Store(Renamed(T, f), [r EXCEPT !.it = RenameIt(@, f), !.log = T.log, !.splits = T.splits,
                              !.borrows = T.borrows, !.steps = T.steps,
                              !.writes = T.writes, !.searches = T.searches,
                              !.moves = T.moves])

\* the state after an operation that leaves tree T and returns r
Commit(T, r) == CommitRenamed(T, r, Canon(T))

\* insert(k) returned r
InsertReturn(r, k) ==
    /\ ~r.t.full
    /\ Commit(r.t, [op |-> "insert", key |-> k, it |-> r.it, flag |-> r.inserted,
                    log |-> <<>>, splits |-> <<>>, borrows |-> <<>>, steps |-> <<>>,
                    writes |-> <<>>, searches |-> <<>>, moves |-> <<>>])
    /\ ref' = ref \cup {k}

\* insert(k); not taken when the heap of the model has no room for it
Insert(k) ==
    /\ ~ub
    /\ InsertReturn(insert(Tree, k), k)

\* erase returned r, or threw
EraseReturn(r, k) ==
    /\ Commit(r.t, [op |-> "erase", key |-> k, it |-> r.it, flag |-> r.threw,
                    log |-> <<>>, splits |-> <<>>, borrows |-> <<>>, steps |-> <<>>,
                    writes |-> <<>>, searches |-> <<>>, moves |-> <<>>])
    /\ ref' = ref \ {k}

\* erase(find(k)) for a key that find locates
Erase(k) ==
    /\ ~ub
    /\ find(Tree, k).node # NULL
    /\ EraseReturn(erase(Tree, find(Tree, k)), k)

\* erase on the empty tree: throws std::underflow_error
EraseEmpty ==
    /\ ~ub
    /\ m_size = 0
    /\ EraseReturn(erase(Tree, end(Tree)), 0)

\* clear()
Clear ==
    /\ ~ub
    /\ Commit(clear(Tree), [op |-> "clear", key |-> 0, it |-> make_iterator_end,
                            flag |-> FALSE, log |-> <<>>, splits |-> <<>>,
                            borrows |-> <<>>, steps |-> <<>>,
                            writes |-> <<>>, searches |-> <<>>, moves |-> <<>>])
    /\ ref' = {}

Next ==
    \/ \E k \in Keys : Insert(k)
    \/ \E k \in Keys : Erase(k)
    \/ EraseEmpty
    \/ Clear

Spec == Init /\ [][Next]_vars

(***************************************************************************)
(* The trees of order 2 built by inserting 1, 2, 3, ... in that order, up   *)
(* to 7 keys, and what erasing keys of such a tree leaves.  No key is       *)
(* inserted after an erase.  The build may use the whole heap.              *)
(***************************************************************************)
BuildKeys == 1..7

InitAscending == Init /\ order = 2

\* insert(m_size + 1) while every operation so far was an insert
InsertAscending ==
    /\ ~ub
    /\ ret.op \in {"init", "insert"}
    /\ m_size + 1 \in BuildKeys
    /\ InsertReturn(insert([Tree EXCEPT !.limit = HeapSize], m_size + 1), m_size + 1)

NextAscending ==
    \/ InsertAscending
    \/ \E k \in BuildKeys : Erase(k)

SpecAscending == InitAscending /\ [][NextAscending]_vars

(***************************************************************************)
(* What the properties speak of.                                            *)
(***************************************************************************)
\* size() and empty()
size(T) == T.size
empty(T) == T.size = 0

\* the keys met from begin() up to end() by operator++ and operator*; 0, which
\* is no key, stands for a step that does not end or cannot be dereferenced
RECURSIVE iterate(_, _, _)
iterate(T, it, fuel) ==
    IF iter_eq(it, end(T)) THEN <<>>
    ELSE IF fuel = 0 \/ ~Dereferenceable(T, it) THEN <<0>>
    ELSE <<deref(T, it)>> \o iterate(T, iter_inc(T, it), fuel - 1)

Traversal == iterate(Tree, begin(Tree), MaxKey + 1)

\* the nodes reachable from the root through child pointers, parents first,
\* children from left to right
TreeWalk == Dedup(Walk(Tree, m_root, HeapSize + 1), {})
TreeNodes == {TreeWalk[i] : i \in 1..Len(TreeWalk)}
TreeLeaves == SelectSeq(TreeWalk, LAMBDA n : heap[n].is_leaf)

IsInternal(n) == n \in NodeIds /\ ~heap[n].is_leaf
Depth2 == IsInternal(m_root)
Depth3 == Depth2 /\ \E i \in 1..Len(heap[m_root].records) :
                        IsInternal(heap[m_root].records[i].child)

\* the keys stored in the leaves below n
RECURSIVE LeafKeys(_, _)
LeafKeys(n, fuel) ==
    IF n \notin NodeIds \/ fuel = 0 THEN {}
    ELSE IF heap[n].is_leaf
         THEN {heap[n].records[i].key : i \in 1..Len(heap[n].records)}
         ELSE UNION {LeafKeys(heap[n].records[i].child, fuel - 1) :
                        i \in 1..Len(heap[n].records)}

SetMax(S) == CHOOSE x \in S : \A y \in S : ~keycomp(x, y)

\* the depths at which the leaves below n lie, n being at depth d
RECURSIVE LeafDepths(_, _, _)
LeafDepths(n, d, fuel) ==
    IF n \notin NodeIds \/ fuel = 0 THEN {}
    ELSE IF heap[n].is_leaf THEN {d}
         ELSE UNION {LeafDepths(heap[n].records[i].child, d + 1, fuel - 1) :
                        i \in 1..Len(heap[n].records)}

\* the nodes met following next from the header until the header is met again
RECURSIVE Chain(_, _)
Chain(n, fuel) ==
    IF n = HEADER THEN <<>>
    ELSE IF n \notin NodeIds \/ fuel = 0 THEN <<0>>
    ELSE <<n>> \o Chain(heap[n].next, fuel - 1)

LeafChain == Chain(heap[HEADER].next, HeapSize + 1)

InLog(what) == \E i \in 1..Len(ret.log) : ret.log[i] = what

\* x is an element of the sequence s
InSeq(x, s) == \E i \in 1..Len(s) : s[i] = x

(***************************************************************************)
(* C1: forward iteration from begin() up to end() yields exactly the keys   *)
(* inserted and not erased since, each once, in strictly ascending order.   *)
(***************************************************************************)
C1_SortedTraversal == Traversal = Ascending(ref)

\* an erase has repaired two levels and left several leaves
C1_Witness ==
    /\ ret.op = "erase"
    /\ Len(ret.log) >= 2
    /\ Len(TreeLeaves) >= 2
    /\ Cardinality(ref) >= 3

(***************************************************************************)
(* C2: after every insert and erase, the key of every record (k, c) of an   *)
(* internal node is the maximum key stored in the leaves below c.           *)
(***************************************************************************)
C2_RouterMaxKey ==
    \A n \in TreeNodes : ~heap[n].is_leaf =>
        \A i \in 1..Len(heap[n].records) :
            LET below == LeafKeys(heap[n].records[i].child, HeapSize)
            IN  below # {} /\ heap[n].records[i].key = SetMax(below)

\* the largest key of a tree of three levels has just been erased
C2_Witness ==
    /\ ret.op = "erase"
    /\ Depth3
    /\ \A k \in ref : keycomp(k, ret.key)

(***************************************************************************)
(* C3: size() is the number of keys forward iteration yields, and empty()   *)
(* holds exactly when that number is 0.                                     *)
(***************************************************************************)
C3_SizeConsistent ==
    /\ size(Tree) = Len(Traversal)
    /\ empty(Tree) <=> Len(Traversal) = 0

\* an erase that merged nodes has left several keys
C3_Witness ==
    /\ ret.op = "erase"
    /\ InLog("MERGE_RIGHT")
    /\ m_size >= 3

(***************************************************************************)
(* C4: no node holds more than order records and every node but the root    *)
(* holds at least one.                                                      *)
(***************************************************************************)
C4_FillBounds ==
    \A n \in TreeNodes :
        /\ Len(heap[n].records) <= order
        /\ n # m_root => Len(heap[n].records) >= 1

\* a split has cascaded to the root and some node is full
C4_Witness ==
    /\ ret.op = "insert"
    /\ Len(ret.log) >= 2
    /\ \E n \in TreeNodes : Len(heap[n].records) = order

(***************************************************************************)
(* C5: all leaves are at the same depth below the root.                     *)
(***************************************************************************)
C5_LeafUniformity == Cardinality(LeafDepths(m_root, 0, HeapSize + 1)) <= 1

\* an erase removed an only child and then shrank the root, leaving two levels
C5_Witness ==
    /\ ret.op = "erase"
    /\ InLog("SINGLE_CHILD")
    /\ InLog("ROOT_SHRINK")
    /\ Depth2

(***************************************************************************)
(* C6: following next from the header visits every leaf of the tree once,   *)
(* in ascending key order, and comes back to the header; pre inverts next   *)
(* on that cycle; on an empty tree the header is linked to itself.          *)
(***************************************************************************)
C6_LeafChainClosure ==
    /\ LeafChain = TreeLeaves
    /\ \A i \in 1..(Len(LeafChain) - 1) :
          /\ Len(heap[LeafChain[i]].records) >= 1
          /\ Len(heap[LeafChain[i + 1]].records) >= 1
          /\ keycomp(LastKey(Tree, LeafChain[i]), FirstKey(Tree, LeafChain[i + 1]))
    /\ \A x \in {HEADER} \cup {TreeLeaves[i] : i \in 1..Len(TreeLeaves)} :
          /\ heap[x].next \in Addrs
          /\ heap[heap[x].next].pre = x
    /\ m_size = 0 => heap[HEADER].next = HEADER /\ heap[HEADER].pre = HEADER

\* an erase merged a leaf into its left neighbour and three leaves remain
C6_Witness ==
    /\ ret.op = "erase"
    /\ InLog("MERGE_LEFT")
    /\ Len(TreeLeaves) >= 3

(***************************************************************************)
(* C7: the root is null exactly when the tree is empty, or a leaf, or an    *)
(* internal node with at least two records.                                 *)
(***************************************************************************)
C7_RootShape ==
    /\ m_root = NULL <=> empty(Tree)
    /\ m_root # NULL =>
          \/ heap[m_root].is_leaf
          \/ Len(heap[m_root].records) >= 2

\* an erase has replaced a root of one record by its child, now a leaf root
C7_Witness ==
    /\ ret.op = "erase"
    /\ InLog("ROOT_SHRINK")
    /\ m_root # NULL
    /\ heap[m_root].is_leaf

(***************************************************************************)
(* C8: every record of an internal node has a child whose parent is that    *)
(* node, every record of a leaf has a null child, the root has no parent.   *)
(***************************************************************************)
C8_ChildParent ==
    /\ \A n \in TreeNodes : \A i \in 1..Len(heap[n].records) :
          LET c == heap[n].records[i].child
          IN  IF heap[n].is_leaf THEN c = NULL
              ELSE c \in NodeIds /\ heap[c].parent = n
    /\ m_root # NULL => heap[m_root].parent = NULL

\* an erase nulled a child pointer twice: SINGLE_CHILD, then a merge above it
C8_Witness ==
    /\ ret.op = "erase"
    /\ Len(ret.log) >= 2
    /\ ret.log[1] = "SINGLE_CHILD"
    /\ ret.log[2] \in {"MERGE_LEFT", "MERGE_RIGHT"}

(***************************************************************************)
(* C9: insert(k) of a stored key returns (handle, false), the handle        *)
(* dereferences to k, and size, key set and every node are unchanged.       *)
(***************************************************************************)
C9_DuplicateInsert ==
    [][(ret'.op = "insert" /\ ret'.key \in ref) =>
              /\ ~ret'.flag
              /\ Dereferenceable(Tree', ret'.it)
              /\ deref(Tree', ret'.it) = ret'.key
              /\ heap' = heap
              /\ m_root' = m_root
              /\ m_size' = m_size
              /\ ref' = ref]_vars

\* the largest key of a tree of three levels has been inserted again
C9_Witness ==
    /\ ret.op = "insert"
    /\ ~ret.flag
    /\ Depth3
    /\ \A k \in ref : ~keycomp(ret.key, k)

\* the pair r is (handle, true) and the handle is the record of r.key in a leaf of T
InsertedAt(T, r) ==
    /\ r.flag
    /\ InSeq(r.it.node, Dedup(Walk(T, T.root, HeapSize + 1), {}))
    /\ T.heap[r.it.node].is_leaf
    /\ r.it.pos \in 1..NSize(T, r.it.node)
    /\ Records(T, r.it.node)[r.it.pos].key = r.key

(***************************************************************************)
(* C10: insert(k) of a key not stored returns (handle, true); the handle's  *)
(* node is a leaf of the final tree and its position is the record of k.    *)
(***************************************************************************)
C10_InsertHandle ==
    [][(ret'.op = "insert" /\ ret'.key \notin ref) =>
              \A T \in {Tree'} : \A r \in {ret'} : InsertedAt(T, r)]_vars

\* the split of the leaf cascaded, and the new key is not in the last leaf
C10_Witness ==
    /\ ret.op = "insert"
    /\ ret.flag
    /\ Len(ret.log) >= 2
    /\ ret.it.node \in NodeIds
    /\ heap[ret.it.node].next # HEADER


(***************************************************************************)
(* What the claims about the handles speak of.                              *)
(***************************************************************************)
\* the least key of S, S having one
SetMin(S) == CHOOSE x \in S : \A y \in S : ~keycomp(y, x)

\* the handle it of tree T stands for the least key of S, or is end() when
\* S is empty
HandleToLeast(T, it, S) ==
    IF S # {}
    THEN Dereferenceable(T, it) /\ deref(T, it) = SetMin(S)
    ELSE iter_eq(it, end(T))

\* the keys operator* yields from the handle it up to the handle to, stepping by
\* operator++; 0, which is no key, stands for a walk that does not meet to
RECURSIVE iterate_until(_, _, _, _)
iterate_until(T, it, to, fuel) ==
    IF iter_eq(it, to) THEN <<>>
    ELSE IF fuel = 0 \/ ~Dereferenceable(T, it) THEN <<0>>
    ELSE <<deref(T, it)>> \o iterate_until(T, iter_inc(T, it), to, fuel - 1)

(***************************************************************************)
(* C11: erase(h) of a handle to the stored key k returns a handle to the    *)
(* least stored key greater than k, or a handle equal to end() when k was   *)
(* the largest key, also when the root is a leaf.                           *)
(***************************************************************************)
C11_EraseReturnsNext ==
    (ret.op = "erase" /\ ~ret.flag) =>
        HandleToLeast(Tree, ret.it, {x \in ref : keycomp(ret.key, x)})

(***************************************************************************)
(* C12: for every key k of the domain, find(k) returns a handle that        *)
(* dereferences to k when k is stored and a handle equal to end() when not. *)
(***************************************************************************)
C12_FindExact ==
    \A k \in Keys :
        IF k \in ref
        THEN Dereferenceable(Tree, find(Tree, k)) /\ deref(Tree, find(Tree, k)) = k
        ELSE iter_eq(find(Tree, k), end(Tree))

\* after an erase on a tree of three levels: an absent key above every stored
\* key, an absent key below a stored key, and a stored key that is a router key
C12_Witness ==
    /\ ret.op = "erase"
    /\ Depth3
    /\ \E k \in Keys \ ref : \A x \in ref : keycomp(x, k)
    /\ \E k \in Keys \ ref : \E x \in ref : keycomp(k, x)
    /\ \E k \in ref : k = heap[m_root].records[1].key

(***************************************************************************)
(* C13: for every key k, lower_bound(k) returns a handle to the least       *)
(* stored key not less than k, or a handle equal to end() when there is     *)
(* none, also when the root is a leaf; iteration from begin() meets the     *)
(* stored keys less than k, and only them, before it meets that handle.     *)
(***************************************************************************)
C13_LowerBound ==
    \A k \in Keys :
        /\ HandleToLeast(Tree, lower_bound(Tree, k), {x \in ref : ~keycomp(x, k)})
        /\ iterate_until(Tree, begin(Tree), lower_bound(Tree, k), MaxKey + 1)
              = Ascending({x \in ref : keycomp(x, k)})

\* the number of records of the leaves from leaf n up to, not including, leaf to
RECURSIVE records_before(_, _, _, _)
records_before(T, n, to, fuel) ==
    IF n = to \/ n \notin NodeIds \/ fuel = 0 THEN 0
    ELSE NSize(T, n) + records_before(T, T.heap[n].next, to, fuel - 1)

\* the handle it is a position of the iteration: end(), or a leaf of the chain
\* with a record of it or the end of its records
IsPosition(T, it) ==
    \/ it.node = NULL
    \/ /\ InSeq(it.node, LeafChain)
       /\ it.pos \in 1..(NSize(T, it.node) + 1)

\* the number of keys the iteration yields before it comes to the position it
Rank(T, it) ==
    IF it.node = NULL THEN T.size
    ELSE records_before(T, T.heap[HEADER].next, it.node, HeapSize + 1) + it.pos - 1

(***************************************************************************)
(* C14: for every key k, upper_bound(k) returns a handle to the least       *)
(* stored key greater than k, or a handle equal to end() when there is      *)
(* none, also when k is a router key or the largest key; the position of    *)
(* lower_bound(k) in the iteration is not after that of upper_bound(k), and *)
(* where lower_bound(k) can be dereferenced the iteration from it meets     *)
(* upper_bound(k) after the stored keys equal to k.                         *)
(***************************************************************************)
C14_UpperBound ==
    \A k \in Keys :
        /\ HandleToLeast(Tree, upper_bound(Tree, k), {x \in ref : keycomp(k, x)})
        /\ IsPosition(Tree, lower_bound(Tree, k))
        /\ IsPosition(Tree, upper_bound(Tree, k))
        /\ Rank(Tree, lower_bound(Tree, k)) <= Rank(Tree, upper_bound(Tree, k))
        /\ Dereferenceable(Tree, lower_bound(Tree, k)) =>
              iterate_until(Tree, lower_bound(Tree, k), upper_bound(Tree, k), MaxKey + 1)
                 = Ascending(ref \cap {k})

\* after an erase on a tree of three levels: the first router key of the root
\* is stored and is not the largest key, which is stored too
C14_Witness ==
    /\ ret.op = "erase"
    /\ Depth3
    /\ heap[m_root].records[1].key \in ref
    /\ heap[m_root].records[Len(heap[m_root].records)].key \in ref
    /\ Len(heap[m_root].records) >= 2

(***************************************************************************)
(* C15: for every key k, the pair (first, second) of equal_range(k)         *)
(* delimits exactly the key k when k is stored, and is an empty range,      *)
(* first == second, when k is not stored, also when a stored key is         *)
(* greater than k and when lower_bound(k) is end().                         *)
(***************************************************************************)
C15_EqualRange ==
    \A k \in Keys :
        IF k \in ref
        THEN iterate_until(Tree, equal_range(Tree, k).first,
                           equal_range(Tree, k).second, MaxKey + 1) = <<k>>
        ELSE iter_eq(equal_range(Tree, k).first, equal_range(Tree, k).second)

(***************************************************************************)
(* C16: erase on a tree of size 0 throws the underflow error and changes    *)
(* nothing: the size stays 0, the root stays null, the header stays linked  *)
(* to itself and no node changes.                                           *)
(***************************************************************************)
C16_EraseEmptyThrows ==
    [][(m_size = 0 /\ ret'.op = "erase") =>
          /\ ret'.flag
          /\ m_size' = 0
          /\ m_root' = NULL
          /\ heap'[HEADER].next = HEADER
          /\ heap'[HEADER].pre = HEADER
          /\ heap' = heap
          /\ ref' = ref]_vars

\* erase has been called on an empty tree and has thrown
C16_Witness ==
    /\ ret.op = "erase"
    /\ ret.flag
    /\ m_size = 0
    /\ m_root = NULL

\* the tree right after construction
FreshTree ==
    [Tree EXCEPT !.heap = [a \in Addrs |-> IF a = HEADER THEN HeaderInit ELSE FreedNode],
                 !.root = NULL,
                 !.size = 0]

\* erase returned r and left the tree T empty, as good as new
ErasedToEmpty(T, r) ==
    /\ ~r.flag
    /\ iter_eq(r.it, end(T))
    /\ T.root = NULL
    /\ T.heap[HEADER].next = HEADER
    /\ T.heap[HEADER].pre = HEADER
    /\ size(T) = 0
    /\ iter_eq(begin(T), end(T))
    /\ \A n \in NodeIds : ~T.heap[n].alive
    /\ \A k \in Keys : /\ insert(T, k) = insert(FreshTree, k)
                       /\ insert(T, k).inserted
                       /\ find(insert(T, k).t, k) = insert(T, k).it

(***************************************************************************)
(* C17: erase of the only key of a tree leaves the empty tree: the root is  *)
(* null, the header is linked to itself, size() is 0, begin() == end(), the *)
(* call returns end(), and an insert that follows does what it does on a    *)
(* tree just constructed.                                                   *)
(***************************************************************************)
C17_EraseLast ==
    [][(m_size = 1 /\ ret'.op = "erase") =>
          /\ ref' = {}
          /\ \A T \in {Tree'} : \A r \in {ret'} : ErasedToEmpty(T, r)]_vars

\* the only key has been erased
C17_Witness ==
    /\ ret.op = "erase"
    /\ ~ret.flag
    /\ ret.key \in Keys
    /\ m_size = 0

\* operator++ and operator-- applied n times
RECURSIVE advance(_, _, _)
advance(T, it, n) == IF n = 0 THEN it ELSE advance(T, iter_inc(T, it), n - 1)

RECURSIVE retreat(_, _, _)
retreat(T, it, n) == IF n = 0 THEN it ELSE retreat(T, iter_dec(T, it), n - 1)

\* the handles the claim starts from: those of the stored keys, and end()
Handles == {find(Tree, k) : k \in ref} \cup {end(Tree)}

\* how many times the handle it can advance: up to end() and no further; on
\* the empty tree operator++ does nothing, any number of times
Advances(it) == IF m_root = NULL THEN MaxKey ELSE m_size - Rank(Tree, it)

(***************************************************************************)
(* C18: from the handle of any stored key or from end(), advancing n times  *)
(* and then retreating n times gives a handle equal to the first one, for   *)
(* every n the iteration allows; advancing from the largest key gives       *)
(* end(), retreating from end() gives the handle of the largest key, and    *)
(* retreating from begin() leaves the handle as it is.                      *)
(***************************************************************************)
C18_AdvanceRetreat ==
    /\ \A h \in Handles : \A n \in 0..Advances(h) :
          /\ iter_eq(retreat(Tree, advance(Tree, h, n), n), h)
          /\ h.node # NULL => retreat(Tree, advance(Tree, h, n), n) = h
    /\ iter_dec(Tree, begin(Tree)) = begin(Tree)
    /\ ref # {} =>
          /\ iter_eq(iter_inc(Tree, find(Tree, SetMax(ref))), end(Tree))
          /\ iter_dec(Tree, end(Tree)) = find(Tree, SetMax(ref))
          /\ iter_dec(Tree, iter_inc(Tree, find(Tree, SetMax(ref)))) =
                find(Tree, SetMax(ref))

\* an erase has merged two leaves, and three leaves with five keys or more
\* remain to advance and retreat over
C18_Witness ==
    /\ ret.op = "erase"
    /\ InLog("MERGE_LEFT") \/ InLog("MERGE_RIGHT")
    /\ Len(TreeLeaves) >= 3
    /\ m_size >= 5

\* the split s took a node of order + 1 records, moved its first h to the new
\* left node and left the others
SplitMoved(s, h) ==
    /\ Len(s.before) = order + 1
    /\ s.left = SubSeq(s.before, 1, h)
    /\ s.node = SubSeq(s.before, h + 1, order + 1)

(***************************************************************************)
(* C19, as claimed: a split of a node of m + 1 records moves its first      *)
(* h = ceil((m + 1) / 2) records to the new left node and leaves the other  *)
(* m + 1 - h, for every order m: h = 2 for m = 2 and 3, h = 3 for m = 4.    *)
(***************************************************************************)
C19_SplitMovesCeil ==
    \A i \in 1..Len(ret.splits) : SplitMoved(ret.splits[i], (order + 2) \div 2)

(***************************************************************************)
(* C19, amended: a split of a node of m + 1 records moves its first         *)
(* h = floor((m + 1) / 2) records to the new left node and leaves the other *)
(* m + 1 - h, for every order m: h = 1 for m = 2, h = 2 for m = 3 and 4.    *)
(***************************************************************************)
C19_SplitMovesFloor ==
    \A i \in 1..Len(ret.splits) :
        /\ SplitMoved(ret.splits[i], (order + 1) \div 2)
        /\ order = 2 => Len(ret.splits[i].left) = 1 /\ Len(ret.splits[i].node) = 2
        /\ order = 3 => Len(ret.splits[i].left) = 2 /\ Len(ret.splits[i].node) = 2
        /\ order = 4 => Len(ret.splits[i].left) = 2 /\ Len(ret.splits[i].node) = 3

\* an insert into a tree of even order split a leaf and then the node above
C19_Witness ==
    /\ ret.op = "insert"
    /\ Len(ret.splits) >= 2
    /\ order \in {2, 4}

(***************************************************************************)
(* C20 as stated: during erase, BORROW_RIGHT (BORROW_LEFT) is selected      *)
(* only when the right (left) neighbour has the parent of the current node  *)
(* and holds more than ceil((m+1)/2) records, so that a cousin is never     *)
(* borrowed from.                                                           *)
(***************************************************************************)
C20_BorrowFromSibling ==
    ret.op = "erase" =>
        \A i \in 1..Len(ret.borrows) :
            /\ ret.borrows[i].same_parent
            /\ ret.borrows[i].size > (order + 2) \div 2

(***************************************************************************)
(* C20 amended: during erase, BORROW_RIGHT (BORROW_LEFT) is selected only   *)
(* when the right (left) neighbour on the level of the current node is a    *)
(* node (neither null nor the header) and holds more than floor((m+1)/2)    *)
(* records; it need not have the parent of the current node.                *)
(***************************************************************************)
C20_BorrowFromNeighbour ==
    ret.op = "erase" =>
        \A i \in 1..Len(ret.borrows) :
            /\ ret.borrows[i].what \in {"BORROW_RIGHT", "BORROW_LEFT"}
            /\ ret.borrows[i].is_node
            /\ ret.borrows[i].same_level
            /\ ret.borrows[i].size > (order + 1) \div 2
            /\ (order = 2) => ret.borrows[i].size = 2
            /\ (order \in {3, 4}) => ret.borrows[i].size > 2

\* an erase has borrowed from a cousin: a neighbour under another parent
C20_Witness ==
    /\ ret.op = "erase"
    /\ \E i \in 1..Len(ret.borrows) :
           ret.borrows[i].is_node /\ ~ret.borrows[i].same_parent

\* erase(4) has just been applied to the order-2 tree built by inserting
\* 1, 2, ..., 7 in that order
Erased4Of7 ==
    /\ order = 2
    /\ ret.op = "erase"
    /\ ret.key = 4
    /\ ref = BuildKeys \ {4}

\* the structural invariants the scenario names
ScenarioInvariants ==
    /\ iterate(Tree, begin(Tree), HeapSize) = <<1, 2, 3, 5, 6, 7>>
    /\ m_size = 6
    /\ C2_RouterMaxKey
    /\ C5_LeafUniformity
    /\ C4_FillBounds
    /\ C6_LeafChainClosure

(***************************************************************************)
(* C21: in the order-2 tree built by inserting 1, 2, ..., 7 in that order,  *)
(* after erasing 4 the structural invariants hold (sorted traversal         *)
(* 1,2,3,5,6,7, size 6, router max-key, equal leaf depth, fill bounds, leaf *)
(* chain closure) and the tree has depth at most 3: no leaf lies more than  *)
(* 3 child links below the root.                                            *)
(***************************************************************************)
C21_Order2Scenario ==
    Erased4Of7 =>
        /\ ScenarioInvariants
        /\ \A d \in LeafDepths(m_root, 0, HeapSize + 1) : d <= 3

\* the strategy the classifier is to choose from what it saw at step s, the
\* tests taken in the order of the list: merges first
MergesFirst(s) ==
    IF s.is_root THEN "ROOT"
    ELSE IF s.left_sib /\ s.own - 1 + s.left_size <= order THEN "MERGE_LEFT"
    ELSE IF s.right_sib /\ s.own - 1 + s.right_size <= order THEN "MERGE_RIGHT"
    ELSE IF s.own > (order + 1) \div 2 THEN "REMOVE_DIRECTLY"
    ELSE IF s.right_node /\ s.right_size > (order + 1) \div 2 THEN "BORROW_RIGHT"
    ELSE IF s.left_node /\ s.left_size > (order + 1) \div 2 THEN "BORROW_LEFT"
    ELSE "SINGLE_CHILD"

\* the same tests, merges after the borrows
MergesLast(s) ==
    IF s.is_root THEN "ROOT"
    ELSE IF s.own > (order + 1) \div 2 THEN "REMOVE_DIRECTLY"
    ELSE IF s.right_node /\ s.right_size > (order + 1) \div 2 THEN "BORROW_RIGHT"
    ELSE IF s.left_node /\ s.left_size > (order + 1) \div 2 THEN "BORROW_LEFT"
    ELSE IF s.left_sib /\ s.own - 1 + s.left_size <= order THEN "MERGE_LEFT"
    ELSE IF s.right_sib /\ s.own - 1 + s.right_size <= order THEN "MERGE_RIGHT"
    ELSE "SINGLE_CHILD"

\* a non-root node of 2 records with a sibling of 1 record under its parent
TwoBesideOne(s) ==
    /\ ~s.is_root
    /\ s.own = 2
    /\ \/ s.left_sib /\ s.left_size = 1
       \/ s.right_sib /\ s.right_size = 1

(***************************************************************************)
(* C22: for order 2 the classifier of erase tests MERGE_LEFT, then          *)
(* MERGE_RIGHT (a sibling under the same parent exists and the records of   *)
(* the node minus one plus those of the sibling are at most the order)      *)
(* before REMOVE_DIRECTLY, BORROW_RIGHT and BORROW_LEFT, so that a non-root *)
(* node of 2 records beside a sibling of 1 record is merged and not reduced *)
(* in place; for an order above 2 the tests are taken in the order          *)
(* REMOVE_DIRECTLY, BORROW_RIGHT, BORROW_LEFT, MERGE_LEFT, MERGE_RIGHT,     *)
(* SINGLE_CHILD.                                                            *)
(***************************************************************************)
C22_StrategyOrder ==
    ret.op = "erase" =>
        \A i \in 1..Len(ret.steps) :
            /\ order = 2 => ret.steps[i].what = MergesFirst(ret.steps[i])
            /\ order > 2 => ret.steps[i].what = MergesLast(ret.steps[i])
            /\ (order = 2 /\ TwoBesideOne(ret.steps[i])) =>
                  ret.steps[i].what \in {"MERGE_LEFT", "MERGE_RIGHT"}

\* an erase on a tree of order 2 met a non-root node of 2 records beside a
\* sibling of 1 record, where the two orders of the tests differ
C22_Witness ==
    /\ ret.op = "erase"
    /\ order = 2
    /\ \E i \in 1..Len(ret.steps) :
          /\ TwoBesideOne(ret.steps[i])
          /\ MergesFirst(ret.steps[i]) # MergesLast(ret.steps[i])

(***************************************************************************)
(* C23: every overwrite of a record key in place (of the last key of the    *)
(* nodes insert descends through, and in fix_key_on_path during erase)      *)
(* leaves the records of its node in strictly ascending key order at once,  *)
(* and no node holds two records of equal keys when it is searched by key.  *)
(***************************************************************************)
C23_OverwriteKeepsOrder ==
    ret.op \in {"insert", "erase"} =>
        /\ \A i \in 1..Len(ret.writes) : ret.writes[i]
        /\ \A i \in 1..Len(ret.searches) : ret.searches[i]

\* the nodes allocated and not freed
LiveNodes == {n \in NodeIds : heap[n].alive}

\* the pointer a is null, the header, or a node that is not freed
NotDangling(a) == a \in {NULL, HEADER} \cup LiveNodes

(***************************************************************************)
(* C24: after every public operation the nodes allocated and not freed are  *)
(* exactly the nodes reachable from the root through child pointers, no     *)
(* root, child, parent, next or pre link of such a node or of the header    *)
(* refers to a freed node, and after clear() no node is allocated.          *)
(***************************************************************************)
C24_NoLeakNoDangling ==
    /\ LiveNodes = TreeNodes
    /\ m_root \in {NULL} \cup LiveNodes
    /\ \A x \in LiveNodes \cup {HEADER} :
          /\ NotDangling(heap[x].next)
          /\ NotDangling(heap[x].pre)
          /\ NotDangling(heap[x].parent)
          /\ \A i \in 1..Len(heap[x].records) : NotDangling(heap[x].records[i].child)
    /\ ret.op = "clear" => LiveNodes = {}

\* an erase has freed an only child and a merged node and left a tree
C24_Witness ==
    /\ ret.op = "erase"
    /\ InLog("SINGLE_CHILD")
    /\ InLog("MERGE_LEFT") \/ InLog("MERGE_RIGHT")
    /\ Cardinality(LiveNodes) >= 2

\* the nodes d child links below n, from left to right
RECURSIVE NodesBelow(_, _, _)
RECURSIVE NodesBelowAll(_, _, _)
NodesBelowAll(T, recs, d) ==
    IF recs = <<>> THEN <<>>
    ELSE NodesBelow(T, Head(recs).child, d) \o NodesBelowAll(T, Tail(recs), d)

NodesBelow(T, n, d) ==
    IF n \notin NodeIds THEN <<>>
    ELSE IF d = 0 THEN <<n>>
    ELSE NodesBelowAll(T, Records(T, n), d - 1)

\* the number of levels of the tree: the nodes from the root down to a leaf
RECURSIVE LevelsFrom(_, _, _)
LevelsFrom(T, n, fuel) ==
    IF n \notin NodeIds \/ fuel = 0 THEN 0
    ELSE IF T.heap[n].is_leaf \/ NSize(T, n) = 0 THEN 1
    ELSE 1 + LevelsFrom(T, Records(T, n)[1].child, fuel - 1)

Levels(T) == LevelsFrom(T, T.root, HeapSize)

\* the nodes L of one level, from left to right, are linked by next and pre in
\* ascending key order, and only the last has next equal to null or the header
LevelLinked(T, L) ==
    /\ \A i \in 1..(Len(L) - 1) :
          /\ T.heap[L[i]].next = L[i + 1]
          /\ T.heap[L[i + 1]].pre = L[i]
          /\ NSize(T, L[i]) >= 1 /\ NSize(T, L[i + 1]) >= 1
          /\ keycomp(LastKey(T, L[i]), FirstKey(T, L[i + 1]))
    /\ \A i \in 1..Len(L) :
          T.heap[L[i]].next \in {NULL, HEADER} <=> i = Len(L)

\* the ends of an internal level are null
InternalEnds(T, L) ==
    T.heap[L[1]].is_leaf \/ (T.heap[L[1]].pre = NULL /\ T.heap[L[Len(L)]].next = NULL)

\* every level of T is linked, and print writes one newline for each
LevelsLinked(T) ==
    /\ \A d \in 0..(Levels(T) - 1) :
          /\ NodesBelow(T, T.root, d) # <<>>
          /\ LevelLinked(T, NodesBelow(T, T.root, d))
          /\ InternalEnds(T, NodesBelow(T, T.root, d))
    /\ print(T) = Levels(T)

(***************************************************************************)
(* C25: after every public operation the nodes of each internal level are   *)
(* linked from left to right by next and pre in ascending key order, pre of *)
(* the leftmost and next of the rightmost being null, so that on every      *)
(* level, the leaf level included, exactly one node, the rightmost, has     *)
(* next equal to null or the header, and the dump writes exactly one        *)
(* newline for each level.                                                  *)
(***************************************************************************)
C25_LevelChains == LevelsLinked(Tree)

\* an erase has merged nodes and left three levels, the middle one of
\* several nodes
C25_Witness ==
    /\ ret.op = "erase"
    /\ InLog("MERGE_LEFT") \/ InLog("MERGE_RIGHT")
    /\ Levels(Tree) >= 3
    /\ Len(NodesBelow(Tree, m_root, 1)) >= 2

\* how many times the loop of erase over the root ran
RootShrinks == Cardinality({i \in 1..Len(ret.log) : ret.log[i] = "ROOT_SHRINK"})

\* the calls m of erase_helper by one erase: all but the last returned true,
\* left the parent as the node to repair and a record of it as the position,
\* one level higher at each call; the last returned false
ClimbsAndStops(m) ==
    /\ Len(m) >= 1
    /\ \A i \in 1..Len(m) : m[i].more <=> i < Len(m)
    /\ \A i \in 1..(Len(m) - 1) :
          /\ m[i].up
          /\ m[i].inside
          /\ m[i + 1].level = m[i].level - 1
    /\ m[Len(m)].level >= 1
    /\ Len(m) <= m[1].level

(***************************************************************************)
(* C26: the repair loop of erase terminates: every call of erase_helper     *)
(* either returns false or leaves the parent of the current node, with a    *)
(* position inside it, as the node to repair, so that the loop ends at the  *)
(* root at the latest; the loop that replaces a root of one record ends as  *)
(* well, after fewer rounds than the tree had levels.                       *)
(***************************************************************************)
C26_RepairTerminates ==
    (ret.op = "erase" /\ ~ret.flag /\ m_size > 0) =>
        /\ ClimbsAndStops(ret.moves)
        /\ RootShrinks < ret.moves[1].level
        /\ m_root \in NodeIds
        /\ heap[m_root].is_leaf \/ Len(heap[m_root].records) # 1

\* an erase has repaired every level up to the root of a tree of three
\* levels and then replaced the root
C26_Witness ==
    /\ ret.op = "erase"
    /\ Len(ret.moves) >= 3
    /\ ret.moves[1].level = Len(ret.moves)
    /\ RootShrinks >= 1

=============================================================================
